---- MODULE Spec2Model ----
(***************************************************************************)
(* Model of pySOT's KrigingInterpolant (src/pySOT/kriging_interpolant.py): *)
(* the growable sample buffer (x, fx, nump, maxp), the lazily built        *)
(* Kriging model handle k and its staleness flag `updated`.                *)
(*                                                                         *)
(* numpy arrays are modelled by their shape and their flat C-order data,   *)
(* so that ndarray.resize and row assignment (with broadcasting) do what   *)
(* numpy does.  Python's None is modelled by alloc = FALSE (arrays),       *)
(* exists = FALSE (model handle), 0 (dim) and "None" (updated).            *)
(* The pyKriging engine is an external collaborator: it is modelled by the *)
(* number of samples it holds and the number it was last trained on, and   *)
(* any of its calls may raise (input `fault`).                             *)
(***************************************************************************)
EXTENDS Integers, Sequences, FiniteSets, TLC

\* ---------------------------------------------------------------- bounds
MaxInitp  == 3    \* constructor argument initp ranges over 1..MaxInitp
MaxMaxp   == 4    \* constructor argument maxp ranges over 1..MaxMaxp
MaxDim    == 2    \* len(xx) of an added point ranges over 1..MaxDim
MaxPoints == 5    \* add_point is not called once MaxPoints samples were stored
MaxResets == 1    \* reset is called at most MaxResets times
MaxBatch  == 2    \* evals batches have 0..MaxBatch points
MaxFaults == 1    \* at most MaxFaults calls of the engine raise
MaxEvalCalls == 3 \* eval is called at most MaxEvalCalls times while calls are tallied

VARIABLES nump, maxp, initp, x, fx, dim, k, updated,  \* fields of the object
          last,    \* the last call: its name, argument size and outcome
          resets,  \* number of reset() calls since construction
          added,   \* number of samples stored since construction
          faults,  \* number of engine calls that raised
          maxp0,   \* the maxp given to the constructor
          tally,   \* numbers of engine and interface calls (SpecTally only)
          thr      \* where two threads are in add_point and eval (SpecThreads only)

vars == <<nump, maxp, initp, x, fx, dim, k, updated, last, resets, added, faults, maxp0, tally, thr>>

\* ------------------------------------------------------------ numpy arrays
Min(a, b) == IF a < b THEN a ELSE b
Max(a, b) == IF a > b THEN a ELSE b

NoArray == [alloc |-> FALSE, rows |-> 0, cols |-> 0, data |-> <<>>]

\* np.zeros((rows, cols))
NpZeros(rows, cols) ==
    [alloc |-> TRUE, rows |-> rows, cols |-> cols,
     data |-> [i \in 1..(rows * cols) |-> 0]]

\* ndarray.resize((rows, cols)): in place, on the flat C-order data;
\* new entries are zero, surplus entries are dropped.
NpResize(a, rows, cols) ==
    [alloc |-> TRUE, rows |-> rows, cols |-> cols,
     data |-> [i \in 1..(rows * cols) |->
                  IF i <= Len(a.data) THEN a.data[i] ELSE 0]]

\* a[i, :] for a 0-based row index i
Row(a, i) == [j \in 1..a.cols |-> a.data[i * a.cols + j]]

\* a[i, :] = v succeeds when row i exists and v has the row's length or
\* length 1 (numpy broadcasts a length-1 value over the row)
CanSetRow(a, i, v) == i < a.rows /\ (Len(v) = a.cols \/ Len(v) = 1)

SetRow(a, i, v) ==
    [a EXCEPT !.data =
        [p \in 1..Len(a.data) |->
            IF p > i * a.cols /\ p <= (i + 1) * a.cols
            THEN (IF Len(v) = 1 THEN v[1] ELSE v[p - i * a.cols])
            ELSE a.data[p]]]

\* a[:n, :] as the sequence of its rows
Slice(a, n) == [i \in 1..Min(n, a.rows) |-> Row(a, i - 1)]

\* ------------------------------------------------------- the Kriging engine
NoModel == [exists |-> FALSE, n |-> 0, trained |-> 0, given |-> 0]

\* kriging(X, y, hint): a model holding the handed rows, not yet trained
KrigingConstruct(X, y) ==
    [exists |-> TRUE, n |-> Len(X), trained |-> 0, given |-> Len(X)]

\* k.train(): fit against all samples the model holds
KrigingTrain(m) == [m EXCEPT !.trained = m.n]

\* k.addPoint(xx, fx): one more sample, no training pass
KrigingAddPoint(m, xx, f) == [m EXCEPT !.n = m.n + 1]

\* k.predict(xx): a value that depends on the trained model and the point
KrigingPredict(m, xx) == 10 * m.trained + xx

\* the engine call that raises during one call of the interpolant, if any
AddFaults == {"none", "construct", "train", "addPoint"}
EvalFaults == {"none", "train", "predict"}

\* ------------------------------------------------------------- the object
Self == [nump |-> nump, maxp |-> maxp, initp |-> initp, x |-> x, fx |-> fx,
         dim |-> dim, k |-> k, updated |-> updated]

Outcome(s, result, built, trains, out) ==
    [self |-> s, result |-> result, built |-> built,
     trains |-> trains, out |-> out]

\* _alloc(dim)
Alloc(s, d) ==
    [s EXCEPT !.dim = d, !.x = NpZeros(s.maxp, d), !.fx = NpZeros(s.maxp, 1)]

\* a bug: growth by the needed rows only, without doubling
NewMaxpNoDoubling(m, extra) == m + extra

\* the grown capacity
NewMaxp(m, extra) == Max(m * 2, m + extra)

\* a bug: the buffer grows one insertion early
NeedsGrowEarly(n, extra, m) == n + extra >= m

\* the test that the buffer is full
NeedsGrow(n, extra, m) == n + extra > m

\* a bug: the arrays are resized but the new capacity is not kept in maxp
GrowForgetsMaxp(s, d, extra) ==
    LET m == NewMaxp(s.maxp, extra)
    IN  [s EXCEPT !.x = NpResize(s.x, m, d),
                  !.fx = NpResize(s.fx, m, 1)]

\* the grown buffer
Grow(s, d, extra) ==
    LET m == NewMaxp(s.maxp, extra)
    IN  [s EXCEPT !.maxp = m,
                  !.x = NpResize(s.x, m, d),
                  !.fx = NpResize(s.fx, m, 1)]

\* _realloc(dim, extra)
Realloc(s, d, extra) ==
    IF s.nump = 0 THEN Alloc(s, d)
    ELSE IF NeedsGrow(s.nump, extra, s.maxp) THEN Grow(s, d, extra)
    ELSE s

\* _model(): the engine is handed x[:nump+1, :] and fx[:nump+1, :]
Model(s, fault) ==
    IF fault = "construct" THEN Outcome(s, "EngineError", FALSE, <<>>, <<>>)
    ELSE LET m == KrigingConstruct(Slice(s.x, s.nump + 1),
                                   Slice(s.fx, s.nump + 1))
         IN  IF fault = "train"
             THEN Outcome([s EXCEPT !.k = m], "EngineError", FALSE, <<1>>, <<>>)
             ELSE Outcome([s EXCEPT !.k = KrigingTrain(m)], "ok", TRUE,
                          <<1>>, <<>>)

\* a bug: the threshold is compared with the count before the insertion
LifecycleBuildsEarly(s, xx, f, fault) ==
    IF s.nump + 1 < s.initp THEN Outcome(s, "ok", FALSE, <<>>, <<>>)
    ELSE IF s.nump + 1 = s.initp THEN Model(s, fault)
    ELSE IF ~s.k.exists THEN Outcome(s, "AttributeError", FALSE, <<>>, <<>>)
    ELSE IF fault = "addPoint" THEN Outcome(s, "EngineError", FALSE, <<>>, <<>>)
    ELSE Outcome([s EXCEPT !.k = KrigingAddPoint(s.k, xx, f),
                           !.updated = "True"], "ok", FALSE, <<>>, <<>>)

\* a bug: an incremental addition retrains the model at once
LifecycleRetrainsOnAdd(s, xx, f, fault) ==
    IF s.nump < s.initp THEN Outcome(s, "ok", FALSE, <<>>, <<>>)
    ELSE IF s.nump = s.initp THEN Model(s, fault)
    ELSE IF ~s.k.exists THEN Outcome(s, "AttributeError", FALSE, <<>>, <<>>)
    ELSE IF fault = "addPoint" THEN Outcome(s, "EngineError", FALSE, <<>>, <<>>)
    ELSE Outcome([s EXCEPT !.k = KrigingTrain(KrigingAddPoint(s.k, xx, f)),
                           !.updated = "True"], "ok", FALSE, <<1>>, <<>>)

\* add_point, lines 108-119: collect, build, or add incrementally
Lifecycle(s, xx, f, fault) ==
    IF s.nump < s.initp THEN Outcome(s, "ok", FALSE, <<>>, <<>>)
    ELSE IF s.nump = s.initp THEN Model(s, fault)
    ELSE IF ~s.k.exists THEN Outcome(s, "AttributeError", FALSE, <<>>, <<>>)
    ELSE IF fault = "addPoint" THEN Outcome(s, "EngineError", FALSE, <<>>, <<>>)
    ELSE Outcome([s EXCEPT !.k = KrigingAddPoint(s.k, xx, f),
                           !.updated = "True"], "ok", FALSE, <<>>, <<>>)

\* add_point, lines 105-107: store the sample in row nump
Store(s, xx, f) ==
    [s EXCEPT !.x = SetRow(s.x, s.nump, xx),
              !.fx = SetRow(s.fx, s.nump, <<f>>),
              !.nump = s.nump + 1]

\* add_point(xx, fx)
AddPointCall(s, xx, f, fault) ==
    LET s1 == Realloc(s, Len(xx), 1)
    IN  IF s1.nump >= s1.x.rows
        THEN Outcome(s1, "IndexError", FALSE, <<>>, <<>>)
        ELSE IF ~CanSetRow(s1.x, s1.nump, xx)
        THEN Outcome(s1, "ValueError", FALSE, <<>>, <<>>)
        ELSE Lifecycle(Store(s1, xx, f), xx, f, fault)

\* a bug: eval never refreshes
TrainDueNever(s) == FALSE

\* a bug: eval retrains on every call
TrainDueAlways(s) == s.k.exists

\* eval, line 128: is a training pass due?
TrainDue(s) == s.updated = "True"

\* eval(xx)
EvalCall(s, xx, fault) ==
    IF TrainDue(s) /\ fault = "train"
    THEN Outcome(s, "EngineError", FALSE, <<1>>, <<>>)
    ELSE LET tr == IF TrainDue(s) THEN 1 ELSE 0
             k1 == IF TrainDue(s) THEN KrigingTrain(s.k) ELSE s.k
             s1 == [s EXCEPT !.k = k1, !.updated = "False"]
         IN  IF ~s1.k.exists
             THEN Outcome(s1, "AttributeError", FALSE, <<tr>>, <<>>)
             ELSE IF fault = "predict"
             THEN Outcome(s1, "EngineError", FALSE, <<tr>>, <<>>)
             ELSE Outcome(s1, "ok", FALSE, <<tr>>,
                          <<KrigingPredict(k1, xx)>>)

\* evals(xx): eval point by point, in order; an exception ends the loop and
\* nothing is returned
RECURSIVE EvalsLoop(_, _, _, _, _)
EvalsLoop(acc, xs, i, faultAt, fault) ==
    IF i > Len(xs) THEN acc
    ELSE LET r == EvalCall(acc.self, xs[i],
                           IF i = faultAt THEN fault ELSE "none")
             a == Outcome(r.self, r.result, FALSE,
                          acc.trains \o r.trains, acc.out \o r.out)
         IN  IF r.result # "ok" THEN [a EXCEPT !.out = <<>>]
             ELSE EvalsLoop(a, xs, i + 1, faultAt, fault)

\* a bug: the loop stops one point short
EvalsCallSkipsLast(s, xs, faultAt, fault) ==
    EvalsLoop(Outcome(s, "ok", FALSE, <<>>, <<>>),
              SubSeq(xs, 1, Len(xs) - 1), 1, faultAt, fault)

EvalsCall(s, xs, faultAt, fault) ==
    EvalsLoop(Outcome(s, "ok", FALSE, <<>>, <<>>), xs, 1, faultAt, fault)

\* get_x(): x[:nump, :]; subscripting None raises TypeError
GetX(s) ==
    IF ~s.x.alloc THEN [result |-> "TypeError", rows |-> <<>>]
    ELSE [result |-> "ok", rows |-> Slice(s.x, s.nump)]

\* get_fx(): fx[:nump, :]
GetFx(s) ==
    IF ~s.fx.alloc THEN [result |-> "TypeError", rows |-> <<>>]
    ELSE [result |-> "ok", rows |-> Slice(s.fx, s.nump)]

\* ------------------------------------------------------------------ inputs
\* a point of length d whose coordinates are v, v+1, ..
MkPoint(d, v) == [j \in 1..d |-> v + j - 1]

\* the value of the sampled objective at a point
Objective(xx) == 10 * Len(xx) + xx[1]

\* the driver's next sample: a point of length d that starts with the ordinal
\* of the insertion, so that every stored row tells which insertion wrote it
Points(n) == { MkPoint(d, n + 1) : d \in 1..MaxDim }
\* the held-out point of a single eval, and the batch of n points 1..n
Batch(n) == [i \in 1..n |-> i]
HeldOut == Batch(1)[1]

\* the faults the engine may still raise
Faults(fs) == IF faults < MaxFaults THEN fs ELSE {"none"}
Raised(o) == IF o.result = "EngineError" THEN 1 ELSE 0

\* the number of training passes the last call invoked
RECURSIVE SumSeq(_)
SumSeq(q) == IF q = <<>> THEN 0 ELSE Head(q) + SumSeq(Tail(q))

\* the tally of calls: training passes run, models built, eval calls made
\* and points added incrementally; it stays at zero unless it is switched on
NoTally == [on |-> FALSE, trains |-> 0, builds |-> 0, evals |-> 0, incs |-> 0]

Tallied(t, o, inc) ==
    IF ~t.on THEN t
    ELSE [t EXCEPT !.trains = @ + SumSeq(o.trains),
                   !.builds = @ + (IF o.built THEN 1 ELSE 0),
                   !.evals = @ + (IF o.built THEN 0 ELSE Len(o.trains)),
                   !.incs = @ + inc]

\* eval may be called n more times
EvalCallsLeft(n) == tally.on => tally.evals + n <= MaxEvalCalls

\* two threads share the object: one calls add_point, the other eval; each
\* is idle or stands before a statement of its call; ran is the number of
\* training passes of the eval under way, mixed tells that a statement of one
\* call was executed while the other call was under way
NoThreads == [add |-> "idle", eval |-> "idle", ran |-> 0, mixed |-> FALSE]

Call(op, size, o) ==
    [op |-> op, size |-> size, result |-> o.result, built |-> o.built,
     trains |-> o.trains, out |-> o.out]

Assign(s) ==
    /\ nump' = s.nump
    /\ maxp' = s.maxp
    /\ initp' = s.initp
    /\ x' = s.x
    /\ fx' = s.fx
    /\ dim' = s.dim
    /\ k' = s.k
    /\ updated' = s.updated

\* ----------------------------------------------------------------- actions
\* __init__(initp, maxp)
Init ==
    /\ nump = 0
    /\ maxp \in 1..MaxMaxp
    /\ initp \in 1..MaxInitp
    /\ x = NoArray
    /\ fx = NoArray
    /\ dim = 0
    /\ k = NoModel
    /\ updated = "None"
    /\ last = [op |-> "init", size |-> 0, result |-> "ok", built |-> FALSE,
               trains |-> <<>>, out |-> <<>>]
    /\ resets = 0
    /\ added = 0
    /\ faults = 0
    /\ maxp0 = maxp
    /\ tally = NoTally
    /\ thr = NoThreads

\* a bug: reset also gives the capacity back
ResetShrinks ==
    /\ resets < MaxResets
    /\ nump' = 0
    /\ x' = NoArray
    /\ fx' = NoArray
    /\ maxp' = maxp0
    /\ UNCHANGED <<initp, dim, k, updated, maxp0, added, faults, tally, thr>>
    /\ resets' = resets + 1
    /\ last' = [op |-> "reset", size |-> 0, result |-> "ok", built |-> FALSE,
                trains |-> <<>>, out |-> <<>>]

Reset ==
    /\ resets < MaxResets
    /\ nump' = 0
    /\ x' = NoArray
    /\ fx' = NoArray
    /\ UNCHANGED <<maxp, initp, dim, k, updated, maxp0, added, faults, tally, thr>>
    /\ resets' = resets + 1
    /\ last' = [op |-> "reset", size |-> 0, result |-> "ok", built |-> FALSE,
                trains |-> <<>>, out |-> <<>>]

AddPoint ==
    /\ added < MaxPoints
    /\ \E xx \in Points(nump), fault \in Faults(AddFaults) :
          LET o == AddPointCall(Self, xx, Objective(xx), fault)
          IN  /\ Assign(o.self)
              /\ last' = Call("add_point", Len(xx), o)
              /\ added' = added + (o.self.nump - nump)
              /\ faults' = faults + Raised(o)
              /\ tally' = Tallied(tally, o,
                                  IF o.result = "ok" /\ o.self.nump > initp
                                  THEN 1 ELSE 0)
    /\ UNCHANGED <<resets, maxp0, thr>>

Eval ==
    /\ EvalCallsLeft(1)
    /\ \E fault \in Faults(EvalFaults) :
          LET o == EvalCall(Self, HeldOut, fault)
          IN  /\ Assign(o.self)
              /\ last' = Call("eval", 1, o)
              /\ faults' = faults + Raised(o)
              /\ tally' = Tallied(tally, o, 0)
    /\ UNCHANGED <<resets, added, maxp0, thr>>

Evals ==
    /\ \E n \in 0..MaxBatch, faultAt \in 1..MaxBatch,
          fault \in Faults(EvalFaults) :
          LET o == EvalsCall(Self, Batch(n), faultAt, fault)
          IN  /\ EvalCallsLeft(n)
              /\ Assign(o.self)
              /\ last' = Call("evals", n, o)
              /\ faults' = faults + Raised(o)
              /\ tally' = Tallied(tally, o, 0)
    /\ UNCHANGED <<resets, added, maxp0, thr>>

\* a bug: deriv clears the staleness flag before it raises
DerivClearsFlag ==
    /\ last' = [op |-> "deriv", size |-> 1, result |-> "NotImplementedError",
                built |-> FALSE, trains |-> <<>>, out |-> <<>>]
    /\ updated' = "False"
    /\ UNCHANGED <<nump, maxp, initp, x, fx, dim, k, resets, added, faults, maxp0, tally, thr>>

\* deriv(x): raise NotImplementedError
Deriv ==
    /\ last' = [op |-> "deriv", size |-> 1, result |-> "NotImplementedError",
                built |-> FALSE, trains |-> <<>>, out |-> <<>>]
    /\ UNCHANGED <<nump, maxp, initp, x, fx, dim, k, updated, resets, added, faults, maxp0, tally, thr>>

Next == Reset \/ AddPoint \/ Eval \/ Evals \/ Deriv

Spec == Init /\ [][Next]_vars

\* the same calls with the tally switched on, for an engine that never raises
InitTally ==
    /\ nump = 0
    /\ maxp \in 1..MaxMaxp
    /\ initp \in 1..MaxInitp
    /\ x = NoArray
    /\ fx = NoArray
    /\ dim = 0
    /\ k = NoModel
    /\ updated = "None"
    /\ last = [op |-> "init", size |-> 0, result |-> "ok", built |-> FALSE,
               trains |-> <<>>, out |-> <<>>]
    /\ resets = 0
    /\ added = 0
    /\ faults = MaxFaults
    /\ maxp0 = maxp
    /\ tally = [NoTally EXCEPT !.on = TRUE]
    /\ thr = NoThreads

SpecTally == InitTally /\ [][Next]_vars

\* ------------------------------------------- two threads, no serialization
\* the calls statement by statement, for an engine that never raises and
\* whose calls are atomic
Quiet == thr.add = "idle" /\ thr.eval = "idle"

AddStep(pc) ==
    [thr EXCEPT !.add = pc, !.mixed = @ \/ thr.eval # "idle"]

EvalStep(pc, ran) ==
    [thr EXCEPT !.eval = pc, !.ran = ran, !.mixed = @ \/ thr.add # "idle"]

Frame == UNCHANGED <<resets, faults, maxp0, tally>>

\* add_point while nump < initp before the call: collect or build
AddQuiet ==
    /\ Quiet
    /\ nump < initp
    /\ AddPoint

\* add_point, lines 103-107, when nump >= initp before the call
AddStore ==
    /\ thr.add = "idle"
    /\ nump >= initp
    /\ added < MaxPoints
    /\ \E xx \in Points(nump) :
          LET s1 == Realloc(Self, Len(xx), 1)
          IN  IF s1.nump >= s1.x.rows \/ ~CanSetRow(s1.x, s1.nump, xx)
              THEN /\ Assign(s1)
                   /\ last' = Call("add_point", Len(xx),
                                   Outcome(s1, IF s1.nump >= s1.x.rows
                                               THEN "IndexError"
                                               ELSE "ValueError",
                                           FALSE, <<>>, <<>>))
                   /\ thr' = AddStep("idle")
                   /\ added' = added
              ELSE /\ Assign(Store(s1, xx, Objective(xx)))
                   /\ last' = last
                   /\ thr' = AddStep("addPoint")
                   /\ added' = added + 1
    /\ Frame

\* add_point, line 118: self.k.addPoint(xx, fx)
AddEngine ==
    /\ thr.add = "addPoint"
    /\ IF k.exists
       THEN /\ k' = KrigingAddPoint(k, Row(x, nump - 1), Row(fx, nump - 1)[1])
            /\ thr' = AddStep("flag")
            /\ last' = last
       ELSE /\ k' = k
            /\ thr' = AddStep("idle")
            /\ last' = Call("add_point", dim,
                            Outcome(Self, "AttributeError", FALSE, <<>>, <<>>))
    /\ UNCHANGED <<nump, maxp, initp, x, fx, dim, updated, added>>
    /\ Frame

\* a bug: the incremental addition does not mark the model stale
AddFlagForgets ==
    /\ thr.add = "flag"
    /\ thr' = AddStep("idle")
    /\ last' = Call("add_point", dim, Outcome(Self, "ok", FALSE, <<>>, <<>>))
    /\ UNCHANGED <<nump, maxp, initp, x, fx, dim, k, updated, added>>
    /\ Frame

\* add_point, line 119: self.updated = True
AddFlag ==
    /\ thr.add = "flag"
    /\ updated' = "True"
    /\ thr' = AddStep("idle")
    /\ last' = Call("add_point", dim, Outcome(Self, "ok", FALSE, <<>>, <<>>))
    /\ UNCHANGED <<nump, maxp, initp, x, fx, dim, k, added>>
    /\ Frame

\* eval, line 128: if self.updated
EvalTest ==
    /\ thr.eval = "idle"
    /\ thr' = EvalStep(IF TrainDue(Self) THEN "train" ELSE "clear", 0)
    /\ UNCHANGED <<nump, maxp, initp, x, fx, dim, k, updated, added, last>>
    /\ Frame

\* eval, line 129: self.k.train()
EvalTrain ==
    /\ thr.eval = "train"
    /\ IF k.exists
       THEN /\ k' = KrigingTrain(k)
            /\ thr' = EvalStep("clear", 1)
            /\ last' = last
       ELSE /\ k' = k
            /\ thr' = EvalStep("idle", 0)
            /\ last' = Call("eval", 1,
                            Outcome(Self, "AttributeError", FALSE, <<0>>, <<>>))
    /\ UNCHANGED <<nump, maxp, initp, x, fx, dim, updated, added>>
    /\ Frame

\* eval, line 130: self.updated = False
EvalClear ==
    /\ thr.eval = "clear"
    /\ updated' = "False"
    /\ thr' = EvalStep("predict", thr.ran)
    /\ UNCHANGED <<nump, maxp, initp, x, fx, dim, k, added, last>>
    /\ Frame

\* eval, line 131: return self.k.predict(xx.ravel())
EvalPredict ==
    /\ thr.eval = "predict"
    /\ thr' = EvalStep("idle", 0)
    /\ last' = Call("eval", 1,
                    IF k.exists
                    THEN Outcome(Self, "ok", FALSE, <<thr.ran>>,
                                 <<KrigingPredict(k, HeldOut)>>)
                    ELSE Outcome(Self, "AttributeError", FALSE, <<thr.ran>>,
                                 <<>>))
    /\ UNCHANGED <<nump, maxp, initp, x, fx, dim, k, updated, added>>
    /\ Frame

InitThreads ==
    /\ nump = 0
    /\ maxp \in 1..MaxMaxp
    /\ initp \in 1..MaxInitp
    /\ x = NoArray
    /\ fx = NoArray
    /\ dim = 0
    /\ k = NoModel
    /\ updated = "None"
    /\ last = [op |-> "init", size |-> 0, result |-> "ok", built |-> FALSE,
               trains |-> <<>>, out |-> <<>>]
    /\ resets = 0
    /\ added = 0
    /\ faults = MaxFaults
    /\ maxp0 = maxp
    /\ tally = NoTally
    /\ thr = NoThreads

NextThreads ==
    \/ AddQuiet \/ AddStore \/ AddEngine \/ AddFlag
    \/ EvalTest \/ EvalTrain \/ EvalClear \/ EvalPredict

SpecThreads == InitThreads /\ [][NextThreads]_vars

\* ------------------------------------------------------- lifecycle states
NoModelYet == ~k.exists
Fitted == k.exists /\ updated # "True"
Stale == k.exists /\ updated = "True"

\* the error kinds of the interface, as the Python exceptions that carry them
ModelNotReady == "AttributeError"
DimensionMismatch == "ValueError"

IsAdd(c) == c.op = "add_point"
IsQuery(c) == c.op = "eval" \/ (c.op = "evals" /\ c.size >= 1)
Returned(c) == c.result = "ok"

\* ------------------------------------------------------------------ C1
\* C1: from a fresh instance (no reset) the model handle appears only in the
\* add_point call that makes nump equal initp, that call (when it returns)
\* builds the model and leaves it fitted, and while nump < initp there is no
\* model handle.
C1_Step ==
    /\ (~k.exists /\ k'.exists) =>
          (IsAdd(last') /\ nump' = initp /\ nump = initp - 1)
    /\ last'.built => (IsAdd(last') /\ nump' = initp /\ nump = initp - 1)
    /\ (resets = 0 /\ IsAdd(last') /\ Returned(last') /\ nump' = nump + 1
          /\ nump' = initp) =>
          (last'.built /\ k'.exists /\ updated' # "True"
             /\ SumSeq(last'.trains) = 1)

C1_BuiltExactlyAtInitp ==
    /\ []((resets = 0 /\ nump < initp) => ~k.exists)
    /\ [][C1_Step]_vars

\* the third of three insertions builds the model
C1_Witness ==
    /\ resets = 0 /\ initp = 3 /\ nump = 3
    /\ IsAdd(last) /\ last.built /\ Fitted

\* ------------------------------------------------------------------ C2
\* C2 as stated: after an add_point that leaves nump > initp the state is
\* stale, and the next eval or evals call, whatever its argument, trains
\* exactly once and leaves the state fitted.
C2_Step(sizes) ==
    /\ (IsAdd(last') /\ Returned(last') /\ nump' = nump + 1 /\ nump' > initp)
          => (k'.exists /\ updated' = "True")
    /\ (IsAdd(last) /\ Returned(last) /\ nump > initp
          /\ (last'.op = "eval" \/ (last'.op = "evals" /\ last'.size \in sizes))
          /\ Returned(last'))
          => (SumSeq(last'.trains) = 1 /\ k'.exists /\ updated' = "False"
                /\ k'.trained = k'.n)

C2_AnyBatchRefreshes ==
    [][C2_Step(0..MaxBatch)]_vars

\* C2 amended: the evals call refreshes when its batch is not empty
C2_NonEmptyBatchRefreshes ==
    [][C2_Step(1..MaxBatch)]_vars

\* an eval refreshed a model that held an untrained sample
C2_Witness ==
    /\ last.op = "eval" /\ Returned(last) /\ last.trains = <<1>>
    /\ nump > initp /\ Fitted /\ k.trained = k.n /\ k.n > k.given

\* ------------------------------------------------------------------ C3
\* C3: an eval call that follows a returned eval call with no add_point in
\* between (as the next call, or as a later call of the same evals batch)
\* trains nothing and leaves the state fitted.
C3_Step ==
    /\ \A i \in 2..Len(last'.trains) : last'.trains[i] = 0
    /\ (IsQuery(last) /\ Returned(last) /\ IsQuery(last'))
          => (SumSeq(last'.trains) = 0 /\ updated' = "False")

C3_RetrainOnDemandIdempotent == [][C3_Step]_vars

\* the first call of a batch of two refreshed the model, the second did not
C3_Witness ==
    /\ last.op = "evals" /\ last.size = 2 /\ Returned(last)
    /\ last.trains = <<1, 0>> /\ nump > initp /\ Fitted /\ k.trained = k.n

\* ------------------------------------------------------------------ C4
\* C4: after reset nump is 0, the buffers and the model handle are gone and
\* the state is not stale, so that an eval issued before initp new points
\* are added fails with ModelNotReady.
C4_Step ==
    (last.op = "reset" /\ last'.op = "eval") => last'.result = ModelNotReady

C4_ResetReturnsToEmpty ==
    /\ [](last.op = "reset" =>
            (nump = 0 /\ ~x.alloc /\ ~fx.alloc /\ ~k.exists
               /\ updated # "True"))
    /\ [][C4_Step]_vars

\* ------------------------------------------------------------------ C5
\* C5: while nump < initp an eval, and an evals on a non-empty batch, fails
\* with ModelNotReady and returns no prediction.
C5_Step ==
    (nump < initp /\ IsQuery(last'))
        => (last'.result = ModelNotReady /\ last'.out = <<>>)

C5_QueryBeforeInitpFails == [][C5_Step]_vars

\* ------------------------------------------------------------------ C6
\* C6: once dim is established, an add_point whose vector length differs
\* from dim fails with DimensionMismatch.
C6_Step ==
    (IsAdd(last') /\ nump >= 1 /\ last'.size # dim)
        => last'.result = DimensionMismatch

C6_MismatchRejected == [][C6_Step]_vars

\* ------------------------------------------------------------------ C7
\* C7: an add_point call that fails leaves nump, maxp, dim, the buffers, the
\* model handle and the staleness flag as they were.
C7_Step ==
    (IsAdd(last') /\ ~Returned(last'))
        => UNCHANGED <<nump, maxp, dim, x, fx, k, updated>>

C7_FailedAddChangesNothing == [][C7_Step]_vars

\* ------------------------------------------------------------------ C8
\* C8: 0 <= nump <= capacity in every state (the capacity is maxp, and the
\* number of allocated rows once the buffers exist); without reset nump never
\* decreases, a returned add_point raises it by exactly 1 and eval, evals
\* and deriv leave it alone.
C8_Step ==
    /\ last'.op # "reset" => nump' >= nump
    /\ (IsAdd(last') /\ Returned(last')) => nump' = nump + 1
    /\ last'.op \in {"eval", "evals", "deriv"} => nump' = nump

C8_CountWithinCapacity ==
    /\ [](/\ 0 <= nump /\ nump <= maxp
          /\ x.alloc => (nump <= x.rows /\ x.rows = maxp)
          /\ fx.alloc => (nump <= fx.rows /\ fx.rows = maxp))
    /\ [][C8_Step]_vars

\* the buffer was grown and is full again
C8_Witness ==
    IsAdd(last) /\ Returned(last) /\ maxp > maxp0 /\ nump = maxp
      /\ x.rows = maxp

\* ------------------------------------------------------------------ C9
\* C9: the insertion into an empty buffer allocates maxp rows (the maxp given
\* to the constructor when nothing was reset); an insertion made when nump
\* equals the capacity sets the capacity to max(2*old, old+1); and a
\* reallocation for a point of the buffer's dimension keeps every stored row
\* i < nump, with its value, at index i.
C9_Step ==
    /\ (IsAdd(last') /\ nump = 0) =>
          /\ x'.alloc /\ x'.rows = maxp /\ fx'.rows = maxp /\ maxp' = maxp
          /\ resets = 0 => maxp = maxp0
    /\ (IsAdd(last') /\ nump >= 1 /\ nump = maxp) =>
          /\ maxp' = (IF 2 * maxp > maxp + 1 THEN 2 * maxp ELSE maxp + 1)
          /\ x'.rows = maxp' /\ fx'.rows = maxp'
    /\ (IsAdd(last') /\ nump >= 1 /\ nump < maxp) => maxp' = maxp
    /\ (IsAdd(last') /\ maxp' # maxp /\ last'.size = x.cols) =>
          \A i \in 0..(nump - 1) :
              /\ Row(x', i) = Row(x, i)
              /\ Row(fx', i) = Row(fx, i)

Scenario ==
    /\ initp = 3 /\ maxp0 = 4 /\ resets = 0 /\ faults = 0
    /\ dim = 2 /\ x.alloc /\ x.cols = 2
    /\ \A i \in 0..(nump - 1) : Row(x, i) = MkPoint(2, i + 1)

\* C10 as stated: with initp = 3 and maxp = 4, three add_point calls of
\* two-dimensional points leave the state fitted, the 4th leaves it stale
\* with a capacity of at least 8, and a following eval leaves it fitted.
C10_FourthPointGrows ==
    Scenario =>
      /\ (nump = 3 /\ IsAdd(last) /\ Returned(last)) => Fitted
      /\ (nump = 4 /\ IsAdd(last) /\ Returned(last)) => (Stale /\ maxp >= 8)
      /\ (nump = 4 /\ last.op = "eval" /\ Returned(last)) => Fitted

\* C10 amended: the 4th add_point leaves the state stale with the capacity
\* still 4; the capacity becomes 8 with the 5th add_point.
C10_FifthPointGrows ==
    Scenario =>
      /\ (nump = 3 /\ IsAdd(last) /\ Returned(last)) => Fitted
      /\ (nump = 4 /\ IsAdd(last) /\ Returned(last)) =>
            (Stale /\ maxp = 4 /\ x.rows = 4)
      /\ (nump = 4 /\ last.op = "eval" /\ Returned(last)) =>
            (Fitted /\ maxp = 4)
      /\ (nump = 5 /\ IsAdd(last) /\ Returned(last)) =>
            (Stale /\ maxp = 8 /\ x.rows = 8)

\* the eval after the 4th point refreshed the model
C10_Witness ==
    /\ Scenario /\ nump = 4 /\ maxp = 4
    /\ last.op = "eval" /\ Returned(last) /\ last.trains = <<1>> /\ Fitted

\* ----------------------------------------------------------------- C11
\* C11: the add_point call that builds the model hands the engine exactly the
\* nump stored samples, rows 0..nump-1.
C11_BuildHandsCountRows ==
    (IsAdd(last) /\ last.built) => (k.given = nump /\ k.n = nump)

\* ----------------------------------------------------------------- C12
\* C12: in every state, the fresh one and the one after reset included, get_x
\* and get_fx return nump entries, and entry i is the i-th point (value) added
\* since construction or the last reset.
C12_Step ==
    (IsAdd(last') /\ Returned(last')) =>
        /\ GetX(Self)'.rows =
              Append(GetX(Self).rows, MkPoint(last'.size, nump + 1))
        /\ GetFx(Self)'.rows =
              Append(GetFx(Self).rows,
                     <<Objective(MkPoint(last'.size, nump + 1))>>)

C12_AccessorsReturnAdded ==
    /\ [](/\ GetX(Self).result = "ok" /\ Len(GetX(Self).rows) = nump
          /\ GetFx(Self).result = "ok" /\ Len(GetFx(Self).rows) = nump)
    /\ [][C12_Step]_vars

\* ----------------------------------------------------------------- C13
\* C13: when a model exists, an evals call that returns gives one output per
\* point of the batch, and output i is what eval gives for point i.
C13_Step ==
    (last'.op = "evals" /\ Returned(last') /\ k.exists) =>
        /\ Len(last'.out) = last'.size
        /\ \A i \in 1..last'.size :
              <<last'.out[i]>> = EvalCall(Self', Batch(last'.size)[i], "none").out

C13_EvalsIsEvalPointwise == [][C13_Step]_vars

\* a batch of two returned two different predictions
C13_Witness ==
    /\ last.op = "evals" /\ Returned(last) /\ last.size = 2
    /\ Len(last.out) = 2 /\ last.out[1] # last.out[2] /\ k.exists

\* ----------------------------------------------------------------- C14
\* C14: deriv raises NotImplementedError in every state and leaves nump,
\* maxp, the buffers, the model handle and the staleness flag unchanged.
C14_Step ==
    last'.op = "deriv" =>
        /\ last'.result = "NotImplementedError" /\ last'.out = <<>>
        /\ UNCHANGED <<nump, maxp, initp, x, fx, dim, k, updated>>

C14_DerivNotImplemented == [][C14_Step]_vars

\* deriv was called on a stale model
C14_Witness ==
    /\ last.op = "deriv" /\ last.result = "NotImplementedError"
    /\ Stale /\ nump > initp

\* ----------------------------------------------------------------- C15
\* C15: an add_point call that leaves the count above initp hands exactly one
\* more point to the existing model through the engine's addPoint and runs no
\* training pass; a training pass is run only by a model build or by an eval
\* call that finds the flag set, one pass each; so the number of training
\* passes never exceeds the number of builds plus the smaller of the number of
\* eval calls and the number of incremental additions.
C15_Step ==
    /\ (IsAdd(last') /\ Returned(last') /\ nump' > initp) =>
          /\ k'.n = k.n + 1
          /\ k'.trained = k.trained
          /\ k'.given = k.given
          /\ last'.trains = <<>>
          /\ ~last'.built
          /\ tally'.incs = tally.incs + 1
    /\ tally'.trains > tally.trains =>
          \/ /\ IsAdd(last') /\ last'.built
             /\ tally'.builds = tally.builds + 1
             /\ tally'.trains = tally.trains + 1
          \/ /\ IsQuery(last') /\ updated = "True"
             /\ tally'.trains = tally.trains + 1

C15_TrainsOnlyWhenDue ==
    /\ [](tally.trains <= tally.builds + Min(tally.evals, tally.incs))
    /\ [][C15_Step]_vars

\* two incremental additions, each followed by an eval that trained
C15_Witness ==
    /\ tally.on
    /\ last.op = "eval" /\ Returned(last) /\ last.trains = <<1>>
    /\ tally.incs >= 2 /\ tally.evals >= 2
    /\ tally.trains = tally.builds + 2

\* ----------------------------------------------------------------- C16
\* C16: whenever an add_point call builds the model, also after a reset, the
\* state it leaves is fitted and not stale, so that the eval right after it
\* trains nothing.
C16_Step ==
    (IsAdd(last) /\ last.built /\ last'.op = "eval")
        => SumSeq(last'.trains) = 0

C16_BuildLeavesFitted ==
    /\ []((IsAdd(last) /\ last.built) => (Fitted /\ k.trained = k.n))
    /\ [][C16_Step]_vars

\* ----------------------------------------------------------------- C17
\* the model holds a point added after its last training pass and the
\* staleness flag is false
UnsafeModel == k.exists /\ k.n > k.trained /\ updated = "False"

\* C17: with an add_point (count > initp) and an eval running in two threads
\* and no serialization, a state is reached, both calls over, in which the
\* model holds a point added after its last training pass while the flag is
\* false; calls that do not interleave never reach it; and an eval started
\* in such a state skips the training pass, predicts and leaves the state as
\* it is.
C17_Step ==
    /\ (UnsafeModel /\ thr.eval = "idle" /\ thr'.eval # "idle")
          => thr'.eval = "clear"
    /\ (UnsafeModel /\ thr.eval \in {"clear", "predict"}
          /\ thr'.eval # thr.eval)
          => /\ UnsafeModel'
             /\ thr'.eval = "idle" => (last'.op = "eval" /\ Returned(last'))

C17_InterleavingLosesRefresh ==
    /\ []((Quiet /\ UnsafeModel) => thr.mixed)
    /\ [][C17_Step]_vars

\* after the interleaving an eval predicted without a training pass, and the
\* added point is still not trained
C17_Witness ==
    /\ Quiet /\ UnsafeModel /\ thr.mixed /\ nump > initp
    /\ last.op = "eval" /\ Returned(last) /\ last.trains = <<0>>

\* ----------------------------------------------------------------- C18
\* C18: maxp never decreases, reset leaves it unchanged, and the insertion
\* into an empty buffer allocates maxp rows, which after a reset is the grown
\* capacity and not the one given to the constructor.
C18_Step ==
    /\ maxp' >= maxp
    /\ maxp >= maxp0
    /\ last'.op = "reset" => maxp' = maxp
    /\ (IsAdd(last') /\ nump = 0) =>
          (x'.alloc /\ x'.rows = maxp /\ fx'.rows = maxp /\ maxp' = maxp)

C18_CapacityNeverShrinks == [][C18_Step]_vars

\* the first point after a reset was stored in a buffer of the grown capacity
C18_Witness ==
    /\ resets = 1 /\ nump = 1 /\ IsAdd(last) /\ Returned(last)
    /\ maxp > maxp0 /\ x.rows = maxp /\ fx.rows = maxp

====
